---- MODULE Spec2Model ----
(***************************************************************************)
(* Model of blog-to-speech-bot (src/src/main.rs): the line chunker         *)
(* chunk_text_by_lines and the per-message handler given to teloxide::repl *)
(* (acknowledge, extract under the shared WebDriver mutex, rewrite, chunk, *)
(* synthesize and deliver each chunk, report errors through handle_error). *)
(*                                                                         *)
(* A Rust String is a TLA+ string; len() is Len, push_str is \o.           *)
(***************************************************************************)
EXTENDS Integers, Sequences, FiniteSets, TLC

\* ------------------------------------------------------------------------
\* Bounds of the chunker's inputs
\* ------------------------------------------------------------------------

\* Longest text given to the chunker
MaxTextLen == 5

\* Largest max_chunk_size given to the chunker
MaxSize == 4

\* Characters of the texts: two letters, the newline and the carriage return
Alphabet == {"a", "b", "\n", "\r"}

RECURSIVE TextsUpTo(_)
TextsUpTo(n) ==
  IF n = 0 THEN {""}
  ELSE LET shorter == TextsUpTo(n - 1)
       IN shorter \cup {s \o c : s \in {t \in shorter : Len(t) = n - 1}, c \in Alphabet}

Texts == TextsUpTo(MaxTextLen)

Sizes == 0..MaxSize

\* Longest text given to the chunker when it is called again and again
MaxPureLen == 3

\* Largest max_chunk_size given to the chunker when it is called again
MaxPureSize == 2

\* The texts of one letter and newlines, up to n characters
RECURSIVE LinesOfA(_)
LinesOfA(n) ==
  IF n = 0 THEN {""}
  ELSE LET shorter == LinesOfA(n - 1)
       IN shorter \cup {s \o c : s \in {t \in shorter : Len(t) = n - 1}, c \in {"a", "\n"}}

PureTexts == LinesOfA(MaxPureLen)

PureSizes == 0..MaxPureSize

\* No call of the chunker is remembered
NoCall == [called |-> FALSE, s |-> "", max |-> 0, result |-> <<>>]

\* A call of the chunker that returned: its arguments and its result
Returned(s, max, result) == [called |-> TRUE, s |-> s, max |-> max, result |-> result]

\* ------------------------------------------------------------------------
\* String helpers
\* ------------------------------------------------------------------------

CharAt(s, k) == SubSeq(s, k, k)

\* The position of the first "\n" among s[lo..hi], hi + 1 when there is none
RECURSIVE FirstNewlineIn(_, _, _)
FirstNewlineIn(s, lo, hi) ==
  IF lo > hi THEN hi + 1
  ELSE IF lo = hi THEN (IF CharAt(s, lo) = "\n" THEN lo ELSE hi + 1)
  ELSE LET mid == (lo + hi) \div 2
           left == FirstNewlineIn(s, lo, mid)
       IN IF left <= mid THEN left ELSE FirstNewlineIn(s, mid + 1, hi)

\* str::find('\n'), Len(s) + 1 when there is none
FirstNewline(s) == FirstNewlineIn(s, 1, Len(s))

\* str::strip_suffix('\r') applied to a piece whose "\n" was already stripped
StripCR(s) ==
  IF Len(s) > 0 /\ CharAt(s, Len(s)) = "\r" THEN SubSeq(s, 1, Len(s) - 1) ELSE s

\* str::lines(): the pieces that end in "\n" lose it and then one "\r"; a last
\* piece with no "\n" is a line as it stands; no line follows a final "\n".
RECURSIVE lines(_)
lines(s) ==
  IF s = "" THEN <<>>
  ELSE LET k == FirstNewline(s)
       IN IF k > Len(s) THEN <<s>>
          ELSE <<StripCR(SubSeq(s, 1, k - 1))>> \o lines(SubSeq(s, k + 1, Len(s)))

\* ------------------------------------------------------------------------
\* chunk_text_by_lines
\* ------------------------------------------------------------------------

\* The mutant of Overflows that forgets the newline that joins two lines
OverflowsNoNewline(acc, line, max) == Len(acc) + Len(line) > max

\* The test of the loop: would adding this line exceed the max chunk size
Overflows(acc, line, max) == Len(acc) + Len(line) + 1 > max

\* One iteration of `for line in text.lines()`; st holds the Vec `chunks` in
\* st.sealed and the String `current_chunk` in st.acc
LoopBody(st, line, max) ==
  LET pushed == IF Overflows(st.acc, line, max)
                THEN [sealed |-> Append(st.sealed, st.acc), acc |-> ""]
                ELSE st
      started == IF pushed.acc # "" THEN pushed.acc \o "\n" ELSE pushed.acc
  IN [sealed |-> pushed.sealed, acc |-> started \o line]

\* The mutant of LastChunk that adds the accumulator even when it is empty
LastChunkAlways(st) == Append(st.sealed, st.acc)

\* After the loop: the last chunk is added if it is not empty
LastChunk(st) == IF st.acc # "" THEN Append(st.sealed, st.acc) ELSE st.sealed

RECURSIVE ChunkLoop(_, _, _)
ChunkLoop(st, ls, max) ==
  IF ls = <<>> THEN st
  ELSE ChunkLoop(LoopBody(st, Head(ls), max), Tail(ls), max)

chunk_text_by_lines(s, max) ==
  LastChunk(ChunkLoop([sealed |-> <<>>, acc |-> ""], lines(s), max))

\* ------------------------------------------------------------------------
\* The handler's constants and inputs
\* ------------------------------------------------------------------------

\* Number of inbound messages, each from a chat of its own
NumReqs == 2

\* Largest number of <p> elements find_all returns
MaxParagraphs == 1

\* The max_chunk_size the handler passes to chunk_text_by_lines
HandlerChunkSize == 4096

Reqs == 1..NumReqs

RECURSIVE Repeat(_, _)
Repeat(c, n) ==
  IF n = 0 THEN ""
  ELSE LET half == Repeat(c, n \div 2)
       IN IF n % 2 = 0 THEN half \o half ELSE half \o half \o c

\* The contents edit_text can return: nothing, one short line, and a first
\* line as long as the handler's chunk size followed by a short line
EditedTexts == <<"", "a", Repeat("a", HandlerChunkSize) \o "\n" \o "b">>

RECURSIVE ChunkEach(_)
ChunkEach(texts) ==
  IF texts = <<>> THEN <<>>
  ELSE <<chunk_text_by_lines(Head(texts), HandlerChunkSize)>> \o ChunkEach(Tail(texts))

\* The handler's chunking of each content
HandlerChunks == ChunkEach(EditedTexts)

\* msg.text() of message r when it has one: the URL
Url(r) == "https://blog/" \o ToString(r)

\* The text of the <p> elements of the page the browser shows
ParagraphText(shown) == "<p>" \o shown

AckText == "Got it! Working on it. It may take a while..."

RetrieveLabel == "Error retrieving blog text"

EditLabel == "Error editing text"

SpeechLabel == "Error converting text to speech"

\* format!("Error: {error_message} {e:?}")
FormatError(error_message, e) == "Error: " \o error_message \o " " \o e

\* The mutant of FileName that numbers the parts from one
FileNameFromOne(k) == "part_" \o ToString(k + 1) \o ".mp3"

\* format!("part_{i}.mp3")
FileName(k) == "part_" \o ToString(k) \o ".mp3"

\* The errors of get_blog_text, one for each awaited driver call
ExtractErrors == {"goto", "find article", "find_all p", "p.text"}

\* The errors edit_text returns: the status is not a success, the body is
\* not JSON
EditErrors == {"status", "json"}

\* The errors text_to_speech returns: the status is not a success, the body
\* cannot be read
SpeechErrors == {"status", "bytes"}

NoReport == [label |-> "", detail |-> "", status |-> "none"]

\* A completed call: its argument is the URL, the message or the file name,
\* for text_to_speech the index of the chunk
Call(op, arg, ok) == [op |-> op, arg |-> arg, ok |-> ok]

\* ------------------------------------------------------------------------
\* State
\* ------------------------------------------------------------------------

VARIABLES
  text,            \* chunker: the text argument
  max_chunk_size,  \* chunker: the max_chunk_size argument
  rest,            \* chunker: the lines the loop has not visited yet
  chunks,          \* chunker: the Vec<String> chunks
  current_chunk,   \* chunker: the accumulator
  cpc,             \* chunker: "loop" inside the for loop, "done" once returned
  previous,        \* chunker: an earlier call that returned, or NoCall
  repl,            \* the future of teloxide::repl that main awaits
  msg,             \* msg.text() of each message: {} for None, {url} for Some(url)
  pc,              \* handler of each message: the await it is at, or how it ended
  driver,          \* the Mutex<WebDriver>: the requests holding a guard of it
  waiters,         \* the requests suspended in driver.lock(), oldest first
  page,            \* the URL the browser shows
  paragraphs,      \* get_blog_text: the number of <p> elements found
  blog_text,       \* get_blog_text's text, then the handler's blog_text
  edited_blog_text,\* the handler's edited_blog_text, as its index in EditedTexts
  i,               \* the handler's loop index
  report,          \* the task handle_error spawned for each request
  log              \* the calls each handler and its task completed, in order

chunkVars == <<text, max_chunk_size, rest, chunks, current_chunk, cpc, previous>>

botVars == <<repl, msg, pc, driver, waiters, page, paragraphs, blog_text, edited_blog_text,
             i, report, log>>

vars == <<chunkVars, botVars>>

\* ------------------------------------------------------------------------
\* The chunker run one loop iteration at a time
\* ------------------------------------------------------------------------

\* The handler state after main built the driver and before any message
BotInit ==
  /\ repl = "running"
  /\ msg = [r \in Reqs |-> {}]
  /\ pc = [r \in Reqs |-> "idle"]
  /\ driver = {}
  /\ waiters = <<>>
  /\ page = "about:blank"
  /\ paragraphs = [r \in Reqs |-> 0]
  /\ blog_text = [r \in Reqs |-> ""]
  /\ edited_blog_text = [r \in Reqs |-> 1]
  /\ i = [r \in Reqs |-> 0]
  /\ report = [r \in Reqs |-> NoReport]
  /\ log = [r \in Reqs |-> <<>>]

ChunkInit ==
  /\ BotInit
  /\ text \in Texts
  /\ max_chunk_size \in Sizes
  /\ rest = lines(text)
  /\ chunks = <<>>
  /\ current_chunk = ""
  /\ cpc = "loop"
  /\ previous = NoCall

ChunkLine ==
  /\ cpc = "loop"
  /\ rest # <<>>
  /\ LET st == LoopBody([sealed |-> chunks, acc |-> current_chunk],
                        Head(rest), max_chunk_size)
     IN /\ chunks' = st.sealed
        /\ current_chunk' = st.acc
  /\ rest' = Tail(rest)
  /\ UNCHANGED <<text, max_chunk_size, cpc, previous>>
  /\ UNCHANGED botVars

ChunkReturn ==
  /\ cpc = "loop"
  /\ rest = <<>>
  /\ chunks' = LastChunk([sealed |-> chunks, acc |-> current_chunk])
  /\ cpc' = "done"
  /\ UNCHANGED <<text, max_chunk_size, rest, current_chunk, previous>>
  /\ UNCHANGED botVars

ChunkNext == ChunkLine \/ ChunkReturn

SpecChunk == ChunkInit /\ [][ChunkNext]_vars

\* ------------------------------------------------------------------------
\* The chunker called again after it returned
\* ------------------------------------------------------------------------

\* The mutant of NewString that starts from what the last call left behind
LeftOver(left) == left

\* `let mut current_chunk = String::new()`, whatever an earlier call left
NewString(left) == ""

\* `let mut chunks = Vec::new()`, whatever an earlier call left
NewVec(left) == <<>>

PureInit ==
  /\ BotInit
  /\ text \in PureTexts
  /\ max_chunk_size \in PureSizes
  /\ rest = lines(text)
  /\ chunks = NewVec(<<>>)
  /\ current_chunk = NewString("")
  /\ cpc = "loop"
  /\ previous = NoCall

\* A new call of chunk_text_by_lines after the last one returned; the call
\* that returned is remembered, or an earlier one still is
ChunkCall ==
  /\ cpc = "done"
  /\ \E s \in PureTexts, max \in PureSizes :
       /\ text' = s
       /\ max_chunk_size' = max
       /\ rest' = lines(s)
  /\ chunks' = NewVec(chunks)
  /\ current_chunk' = NewString(current_chunk)
  /\ cpc' = "loop"
  /\ previous' \in {previous, Returned(text, max_chunk_size, chunks)}
  /\ UNCHANGED botVars

PureNext == ChunkLine \/ ChunkReturn \/ ChunkCall

SpecPure == PureInit /\ [][PureNext]_vars

\* ------------------------------------------------------------------------
\* The handler given to teloxide::repl, one action for each await
\* ------------------------------------------------------------------------

\* The mutant of LockIsFree that takes the driver whoever holds it
LockIsAlwaysFree(guards) == TRUE

\* driver.lock() finds the mutex free
LockIsFree(guards) == guards = {}

\* The mutant of Propagate that drops the Err and goes on
Swallow(ok, next) == next

\* The `?` after an await: an Err ends the handler, an Ok goes on
Propagate(ok, next) == IF ok THEN next ELSE "returned_err"

\* The mutant of Spawned that spawns no task
NotSpawned(error_message, e) == NoReport

\* The chunks the handler's loop iterates over
Parts(r) == HandlerChunks[edited_blog_text[r]]

\* handle_error on an Err: the message is left to a spawned task
Spawned(error_message, e) ==
  [label |-> error_message, detail |-> e, status |-> "spawned"]

\* The mutant of GuardDropped that keeps the guard after the block
GuardKept == UNCHANGED <<driver, waiters>>

\* The drop of the MutexGuard: the oldest suspended lock() gets the guard
GuardDropped ==
  /\ driver' = IF waiters = <<>> THEN {} ELSE {Head(waiters)}
  /\ waiters' = IF waiters = <<>> THEN <<>> ELSE Tail(waiters)

\* pc after request r left the lock block for stage `next`
AfterBlock(r, next) ==
  [q \in Reqs |->
     IF q = r THEN next
     ELSE IF waiters # <<>> /\ q = Head(waiters) THEN "goto"
     ELSE pc[q]]

\* The mutant of MatchText that takes every message for a request
MatchAny(m) == "ack"

\* `match msg.text()`: None returns Ok(()), Some(text) goes on to the
\* acknowledgement
MatchText(m) == IF m = {} THEN "returned_ok" ELSE "ack"

\* A message arrives, with a text or without one
Receive(r) ==
  /\ repl = "running"
  /\ pc[r] = "idle"
  /\ \E m \in {{}, {Url(r)}} :
       /\ msg' = [msg EXCEPT ![r] = m]
       /\ pc' = [pc EXCEPT ![r] = MatchText(m)]
  /\ UNCHANGED <<driver, waiters, page, paragraphs, blog_text, edited_blog_text,
                 i, report, log>>
  /\ UNCHANGED <<repl, chunkVars>>

\* bot.send_message(.., "Got it! ..").await?
Acknowledge(r) ==
  /\ repl = "running"
  /\ pc[r] = "ack"
  /\ \E ok \in BOOLEAN :
       /\ log' = [log EXCEPT ![r] = Append(@, Call("send_message", AckText, ok))]
       /\ pc' = [pc EXCEPT ![r] = Propagate(ok, "lock")]
  /\ UNCHANGED <<driver, waiters, page, paragraphs, blog_text, edited_blog_text,
                 i, report>>
  /\ UNCHANGED <<repl, msg, chunkVars>>

\* driver.lock().await: the guard at once, or a place in the queue
Lock(r) ==
  /\ repl = "running"
  /\ pc[r] = "lock"
  /\ IF LockIsFree(driver)
     THEN /\ driver' = {r}
          /\ pc' = [pc EXCEPT ![r] = "goto"]
          /\ UNCHANGED waiters
     ELSE /\ waiters' = Append(waiters, r)
          /\ pc' = [pc EXCEPT ![r] = "lock_wait"]
          /\ UNCHANGED driver
  /\ UNCHANGED <<page, paragraphs, blog_text, edited_blog_text, i, report, log>>
  /\ UNCHANGED <<repl, msg, chunkVars>>

\* get_blog_text returns Err(e): the guard is dropped, handle_error spawns the
\* message and the handler returns the RequestError
ExtractFails(r, e) ==
  /\ GuardDropped
  /\ pc' = AfterBlock(r, Propagate(FALSE, "edit"))
  /\ log' = [log EXCEPT ![r] = Append(@, Call("get_blog_text", Url(r), FALSE))]
  /\ report' = [report EXCEPT ![r] = Spawned(RetrieveLabel, e)]
  /\ paragraphs' = [paragraphs EXCEPT ![r] = 0]
  /\ blog_text' = [blog_text EXCEPT ![r] = ""]

\* get_blog_text returns Ok(text): the guard is dropped and edit_text is called
ExtractReturns(r, got) ==
  /\ GuardDropped
  /\ pc' = AfterBlock(r, Propagate(TRUE, "edit"))
  /\ log' = [log EXCEPT ![r] = Append(@, Call("get_blog_text", Url(r), TRUE))]
  /\ paragraphs' = [paragraphs EXCEPT ![r] = 0]
  /\ blog_text' = [blog_text EXCEPT ![r] = got]
  /\ UNCHANGED report

\* driver.goto(blog).await?
Goto(r) ==
  /\ repl = "running"
  /\ pc[r] = "goto"
  /\ \/ /\ page' = Url(r)
        /\ pc' = [pc EXCEPT ![r] = "find_article"]
        /\ UNCHANGED <<driver, waiters, paragraphs, blog_text, report, log>>
     \/ /\ ExtractFails(r, "goto")
        /\ UNCHANGED page
  /\ UNCHANGED <<edited_blog_text, i>>
  /\ UNCHANGED <<repl, msg, chunkVars>>

\* driver.find(By::Tag("article")).await?
FindArticle(r) ==
  /\ repl = "running"
  /\ pc[r] = "find_article"
  /\ \/ /\ pc' = [pc EXCEPT ![r] = "find_all"]
        /\ UNCHANGED <<driver, waiters, paragraphs, blog_text, report, log>>
     \/ ExtractFails(r, "find article")
  /\ UNCHANGED <<page, edited_blog_text, i>>
  /\ UNCHANGED <<repl, msg, chunkVars>>

\* article.find_all(By::Tag("p")).await?, and the loop over no paragraph
FindParagraphs(r) ==
  /\ repl = "running"
  /\ pc[r] = "find_all"
  /\ \/ \E n \in 1..MaxParagraphs :
          /\ paragraphs' = [paragraphs EXCEPT ![r] = n]
          /\ pc' = [pc EXCEPT ![r] = "read"]
          /\ UNCHANGED <<driver, waiters, blog_text, report, log>>
     \/ ExtractReturns(r, "")
     \/ ExtractFails(r, "find_all p")
  /\ UNCHANGED <<page, edited_blog_text, i>>
  /\ UNCHANGED <<repl, msg, chunkVars>>

\* One iteration of `for p in paragraphs`: p.text().await?, two push_str
ReadParagraph(r) ==
  /\ repl = "running"
  /\ pc[r] = "read"
  /\ \/ LET got == blog_text[r] \o ParagraphText(page) \o "\n"
        IN IF paragraphs[r] > 1
           THEN /\ blog_text' = [blog_text EXCEPT ![r] = got]
                /\ paragraphs' = [paragraphs EXCEPT ![r] = @ - 1]
                /\ UNCHANGED <<pc, driver, waiters, report, log>>
           ELSE ExtractReturns(r, got)
     \/ ExtractFails(r, "p.text")
  /\ UNCHANGED <<page, edited_blog_text, i>>
  /\ UNCHANGED <<repl, msg, chunkVars>>

\* edit_text(&blog_text).await: an Err goes through handle_error, a body with
\* no choices[0].message.content panics in unwrap, a content starts the loop.
\* blog_text is not read again and is forgotten here.
Edit(r) ==
  /\ repl = "running"
  /\ pc[r] = "edit"
  /\ \/ \E e \in EditErrors :
          /\ log' = [log EXCEPT ![r] = Append(@, Call("edit_text", "", FALSE))]
          /\ report' = [report EXCEPT ![r] = Spawned(EditLabel, e)]
          /\ pc' = [pc EXCEPT ![r] = Propagate(FALSE, "speech")]
          /\ UNCHANGED edited_blog_text
     \/ /\ log' = [log EXCEPT ![r] = Append(@, Call("edit_text", "", FALSE))]
        /\ pc' = [pc EXCEPT ![r] = "panicked"]
        /\ UNCHANGED <<report, edited_blog_text>>
     \/ \E content \in 1..Len(EditedTexts) :
          /\ log' = [log EXCEPT ![r] = Append(@, Call("edit_text", "", TRUE))]
          /\ edited_blog_text' = [edited_blog_text EXCEPT ![r] = content]
          /\ pc' = [pc EXCEPT ![r] =
                      Propagate(TRUE, IF HandlerChunks[content] = <<>>
                                      THEN "returned_ok" ELSE "speech")]
          /\ UNCHANGED report
  /\ blog_text' = [blog_text EXCEPT ![r] = ""]
  /\ UNCHANGED <<driver, waiters, page, paragraphs, i>>
  /\ UNCHANGED <<repl, msg, chunkVars>>

\* text_to_speech(&chunk).await with handle_error
Speech(r) ==
  /\ repl = "running"
  /\ pc[r] = "speech"
  /\ \/ /\ log' = [log EXCEPT ![r] =
                     Append(@, Call("text_to_speech", ToString(i[r]), TRUE))]
        /\ pc' = [pc EXCEPT ![r] = Propagate(TRUE, "send_audio")]
        /\ UNCHANGED report
     \/ \E e \in SpeechErrors :
          /\ log' = [log EXCEPT ![r] =
                       Append(@, Call("text_to_speech", ToString(i[r]), FALSE))]
          /\ report' = [report EXCEPT ![r] = Spawned(SpeechLabel, e)]
          /\ pc' = [pc EXCEPT ![r] = Propagate(FALSE, "send_audio")]
  /\ UNCHANGED <<driver, waiters, page, paragraphs, blog_text, edited_blog_text, i>>
  /\ UNCHANGED <<repl, msg, chunkVars>>

\* bot.send_audio(.., part_{i}.mp3).await?, then the next chunk or Ok(())
SendAudio(r) ==
  /\ repl = "running"
  /\ pc[r] = "send_audio"
  /\ \E ok \in BOOLEAN :
       /\ log' = [log EXCEPT ![r] = Append(@, Call("send_audio", FileName(i[r]), ok))]
       /\ pc' = [pc EXCEPT ![r] =
                   Propagate(ok, IF i[r] + 1 < Len(Parts(r))
                                 THEN "speech" ELSE "returned_ok")]
       /\ i' = [i EXCEPT ![r] = IF pc'[r] = "returned_err" THEN @ ELSE @ + 1]
  /\ UNCHANGED <<driver, waiters, page, paragraphs, blog_text, edited_blog_text, report>>
  /\ UNCHANGED <<repl, msg, chunkVars>>

\* The task of handle_error: bot.send_message(.., "Error: ..").await.unwrap()
Report(r) ==
  /\ repl = "running"
  /\ report[r].status = "spawned"
  /\ \E ok \in BOOLEAN :
       /\ log' = [log EXCEPT ![r] =
                    Append(@, Call("send_message",
                                   FormatError(report[r].label, report[r].detail), ok))]
       /\ report' = [report EXCEPT ![r].status = IF ok THEN "sent" ELSE "panicked"]
  /\ UNCHANGED <<pc, driver, waiters, page, paragraphs, blog_text, edited_blog_text, i>>
  /\ UNCHANGED <<repl, msg, chunkVars>>

\* A later message arrives in the chat of a handler that panicked. This is
\* the behaviour of teloxide's dispatcher, a dependency: the panic of line 270
\* unwound the task in which it runs the handlers of that chat, the dispatcher
\* finds the task's channel closed and panics in its turn, inside the repl
\* future that main awaits at line 155; the runtime is dropped with main, and
\* every handler and task still running with it.
LaterMessage(r) ==
  /\ repl = "running"
  /\ pc[r] = "panicked"
  /\ repl' = "panicked"
  /\ UNCHANGED <<msg, pc, driver, waiters, page, paragraphs, blog_text,
                 edited_blog_text, i, report, log>>
  /\ UNCHANGED chunkVars

Init ==
  /\ BotInit
  /\ text = ""
  /\ max_chunk_size = HandlerChunkSize
  /\ rest = <<>>
  /\ chunks = <<>>
  /\ current_chunk = ""
  /\ cpc = "done"
  /\ previous = NoCall

Next ==
  \E r \in Reqs :
    \/ Receive(r)
    \/ Acknowledge(r)
    \/ Lock(r)
    \/ Goto(r)
    \/ FindArticle(r)
    \/ FindParagraphs(r)
    \/ ReadParagraph(r)
    \/ Edit(r)
    \/ Speech(r)
    \/ SendAudio(r)
    \/ Report(r)
    \/ LaterMessage(r)

Spec == Init /\ [][Next]_vars

\* A step of the handler of message r once it arrived, or of its error task
Step(r) ==
  \/ Acknowledge(r)
  \/ Lock(r)
  \/ Goto(r)
  \/ FindArticle(r)
  \/ FindParagraphs(r)
  \/ ReadParagraph(r)
  \/ Edit(r)
  \/ Speech(r)
  \/ SendAudio(r)
  \/ Report(r)

\* The runtime polls every task that can go on, and every awaited external
\* call completes or fails; the mutex hands the guard to the oldest waiter
FairSpec == Spec /\ \A r \in Reqs : WF_vars(Step(r))

\* ------------------------------------------------------------------------
\* Properties of the chunker
\* ------------------------------------------------------------------------

\* The chunks joined with newline separators
RECURSIVE JoinNewline(_)
JoinNewline(cs) ==
  IF cs = <<>> THEN ""
  ELSE IF Len(cs) = 1 THEN cs[1]
  ELSE cs[1] \o "\n" \o JoinNewline(Tail(cs))

\* The lines of a joined string: what its newline separators separate
RECURSIVE SeparatedLines(_)
SeparatedLines(s) ==
  LET k == FirstNewline(s)
  IN IF k > Len(s) THEN <<s>>
     ELSE <<SubSeq(s, 1, k - 1)>> \o SeparatedLines(SubSeq(s, k + 1, Len(s)))

JoinedLines(cs) == IF cs = <<>> THEN <<>> ELSE SeparatedLines(JoinNewline(cs))

\* The stepped loop computes what the operator computes
SteppedChunkerAgrees ==
  cpc = "done" => chunks = chunk_text_by_lines(text, max_chunk_size)

\* C1: for max_chunk_size >= 1 the returned chunks, joined with newline
\* separators, have exactly the lines of the text
C1_Reconstruction ==
  (cpc = "done" /\ max_chunk_size >= 1) => JoinedLines(chunks) = lines(text)

ClaimedLength(acc, line) == Len(acc) + (IF acc # "" THEN 1 ELSE 0) + Len(line)

\* C3: the accumulator is sealed before a line exactly when the line and its
\* separating newline (counted only for a non-empty accumulator) would make it
\* longer than max_chunk_size
C3_SealRule ==
  [][ChunkLine =>
       ((chunks' # chunks) <=> (ClaimedLength(current_chunk, Head(rest)) > max_chunk_size))]_vars

\* ------------------------------------------------------------------------
\* Properties of the handler
\* ------------------------------------------------------------------------

StartsWith(s, prefix) ==
  Len(s) >= Len(prefix) /\ SubSeq(s, 1, Len(prefix)) = prefix

Contains(s, sub) ==
  \E k \in 1..(Len(s) - Len(sub) + 1) : SubSeq(s, k, k + Len(sub) - 1) = sub

\* Request r is inside get_blog_text
InExtraction(r) == pc[r] \in {"goto", "find_article", "find_all", "read"}

\* The handler of r has ended
Ended(r) == pc[r] \in {"returned_ok", "returned_err", "panicked"}

\* The task handle_error spawned for r has ended, or there is none
Settled(r) == report[r].status # "spawned"

IsAck(c) == c.op = "send_message" /\ c.arg = AckText

IsErrorMessage(c) == c.op = "send_message" /\ c.arg # AckText

IsSpeech(c) == c.op = "text_to_speech"

IsAudio(c) == c.op = "send_audio"

IsSpeechOrAudio(c) == IsSpeech(c) \/ IsAudio(c)

\* The error messages sent to the chat of r
ErrorMessages(r) == SelectSeq(log[r], IsErrorMessage)

\* The text_to_speech and send_audio calls of r, in order
SpeechAndAudio(r) == SelectSeq(log[r], IsSpeechOrAudio)

\* The positions of log[r] whose call is `op`
Calls(r, op) == {k \in 1..Len(log[r]) : log[r][k].op = op}

\* The positions of log[r] whose call is `op` and failed
Failed(r, op) == {k \in Calls(r, op) : ~log[r][k].ok}

\* The message is "Error: <label> <detail>" for this label
Labelled(c, label) == StartsWith(c.arg, "Error: " \o label \o " ")

\* One error message with this label is in flight or sent, and no other
OneErrorMessage(r, label) ==
  /\ report[r].status # "none"
  /\ report[r].label = label
  /\ IF report[r].status = "spawned"
     THEN ErrorMessages(r) = <<>>
     ELSE /\ Len(ErrorMessages(r)) = 1
          /\ Labelled(ErrorMessages(r)[1], label)

\* C4: at most one request is inside get_blog_text on the shared driver
C4_MutualExclusion == Cardinality({r \in Reqs : InExtraction(r)}) <= 1

\* C4 witness: one request reads paragraphs while another is suspended in lock()
C4_Witness ==
  \E r, q \in Reqs : pc[r] = "read" /\ pc[q] = "lock_wait" /\ driver = {r}

\* C5: when get_blog_text fails, one error message with the extraction label is
\* sent and no edit_text, text_to_speech or send_audio call is made
C5_ExtractionFailure ==
  \A r \in Reqs :
    Failed(r, "get_blog_text") # {} =>
      /\ OneErrorMessage(r, RetrieveLabel)
      /\ pc[r] = "returned_err"
      /\ Calls(r, "edit_text") = {}
      /\ Calls(r, "text_to_speech") = {}
      /\ Calls(r, "send_audio") = {}

\* C5 witness: an extraction failed while reading a paragraph and its error
\* message was sent
C5_Witness ==
  \E r \in Reqs :
    /\ Failed(r, "get_blog_text") # {}
    /\ report[r] = [label |-> RetrieveLabel, detail |-> "p.text", status |-> "sent"]
    /\ Len(ErrorMessages(r)) = 1

\* The index of the chunk whose text_to_speech call failed
FailedChunk(r) == Cardinality(Calls(r, "text_to_speech")) - 1

\* The audio of chunks 0..n-1 was delivered, in this order, each after its
\* text_to_speech call
Delivered(r, n) ==
  /\ Len(SpeechAndAudio(r)) >= 2 * n
  /\ \A k \in 0..(n - 1) :
       /\ SpeechAndAudio(r)[2 * k + 1] = Call("text_to_speech", ToString(k), TRUE)
       /\ SpeechAndAudio(r)[2 * k + 2] =
            Call("send_audio", "part_" \o ToString(k) \o ".mp3", TRUE)

\* What C6 and its amendment share: the chunks before the failed one are
\* delivered, the failed call is the last of the loop, the handler has ended
SpeechFailureStops(r) ==
  /\ Delivered(r, FailedChunk(r))
  /\ Len(SpeechAndAudio(r)) = 2 * FailedChunk(r) + 1
  /\ SpeechAndAudio(r)[2 * FailedChunk(r) + 1] =
       Call("text_to_speech", ToString(FailedChunk(r)), FALSE)
  /\ pc[r] = "returned_err"

\* C6 as claimed: when text_to_speech fails on chunk k, the audio of chunks
\* 0..k-1 is delivered, one error message labelled for chunk k is sent, and no
\* later chunk is synthesized or delivered
C6_LabelledForChunk ==
  \A r \in Reqs :
    Failed(r, "text_to_speech") # {} =>
      /\ SpeechFailureStops(r)
      /\ OneErrorMessage(r, SpeechLabel)
      /\ \A k \in 1..Len(ErrorMessages(r)) :
           Contains(ErrorMessages(r)[k].arg, ToString(FailedChunk(r)))

\* C6 as amended: when text_to_speech fails on chunk k, the audio of chunks
\* 0..k-1 is delivered, one error message is sent that carries the label of the
\* speech stage and the error but no chunk index, and no later chunk is
\* synthesized or delivered
C6_SpeechFailure ==
  \A r \in Reqs :
    Failed(r, "text_to_speech") # {} =>
      /\ SpeechFailureStops(r)
      /\ OneErrorMessage(r, SpeechLabel)
      /\ \A k \in 1..Len(ErrorMessages(r)) :
           /\ \E e \in SpeechErrors :
                ErrorMessages(r)[k].arg = FormatError(SpeechLabel, e)
           /\ \A j \in 0..Len(Parts(r)) :
                ~Contains(ErrorMessages(r)[k].arg, ToString(j))

\* C6 witness: three chunks, text_to_speech failed on chunk 1 after the audio
\* of chunk 0 was delivered, and the error message was sent
C6_Witness ==
  \E r \in Reqs :
    /\ Len(Parts(r)) = 3
    /\ Failed(r, "text_to_speech") # {}
    /\ FailedChunk(r) = 1
    /\ report[r].status = "sent"
    /\ Len(ErrorMessages(r)) = 1

\* C7: the chunks are processed in index order with no gap, each synthesized
\* once and delivered as part_<k>.mp3 before the next is synthesized; a handler
\* that returns Ok after edit_text delivered one audio for each chunk
C7_ChunkOrder ==
  \A r \in Reqs :
    LET sa == SpeechAndAudio(r)
    IN /\ Len(sa) <= 2 * Len(Parts(r))
       /\ \A k \in 1..Len(sa) :
            /\ sa[k].op = (IF k % 2 = 1 THEN "text_to_speech" ELSE "send_audio")
            /\ sa[k].arg = (IF k % 2 = 1 THEN ToString((k - 1) \div 2)
                                          ELSE "part_" \o ToString((k - 1) \div 2) \o ".mp3")
            /\ ~sa[k].ok => k = Len(sa)
       /\ (pc[r] = "returned_ok" /\ Calls(r, "edit_text") # {}) =>
            Delivered(r, Len(Parts(r)))
       /\ pc[r] = "speech" => Len(sa) = 2 * i[r]
       /\ pc[r] = "send_audio" => Len(sa) = 2 * i[r] + 1

\* C7 witness: a handler returned Ok after delivering three audio files
C7_Witness ==
  \E r \in Reqs :
    /\ pc[r] = "returned_ok"
    /\ Len(Parts(r)) = 3
    /\ Cardinality(Calls(r, "send_audio")) = 3

\* The handler of r ended on a failed get_blog_text, edit_text, text_to_speech
\* or send_audio call
StageFailed(r) ==
  /\ pc[r] \in {"returned_err", "panicked"}
  /\ \E op \in {"get_blog_text", "edit_text", "text_to_speech", "send_audio"} :
       Failed(r, op) # {}

\* C8: a request that fails at extraction, rewrite, synthesis or audio
\* delivery gets one "Error: <label> <detail>" message and its handler ends;
\* a request whose handler returns Ok gets no error message
C8_EveryFailureSurfaced ==
  \A r \in Reqs :
    /\ StageFailed(r) =>
         /\ report[r].status # "none"
         /\ Settled(r) => /\ Len(ErrorMessages(r)) = 1
                          /\ \E label \in {RetrieveLabel, EditLabel, SpeechLabel} :
                               Labelled(ErrorMessages(r)[1], label)
    /\ pc[r] = "returned_ok" => ErrorMessages(r) = <<>> /\ report[r] = NoReport

\* C9: when edit_text meets a non-success status or a body without
\* choices[0].message.content, the handler does not panic, it returns the error,
\* one error message with the rewrite label is sent and no text_to_speech call
\* is made
C9_RewriteFailure ==
  \A r \in Reqs :
    Failed(r, "edit_text") # {} =>
      /\ pc[r] # "panicked"
      /\ pc[r] = "returned_err"
      /\ OneErrorMessage(r, EditLabel)
      /\ Calls(r, "text_to_speech") = {}

\* The acknowledgement is the first call of every handler that went past it
AckComesFirst(r) ==
  (pc[r] \notin {"idle", "ack"} /\ log[r] # <<>>) => IsAck(log[r][1])

\* The handler of r holds the driver or waits for it only after its
\* acknowledgement was sent
AckBeforeLock(r) ==
  (r \in driver \/ \E k \in 1..Len(waiters) : waiters[k] = r) =>
    (log[r] # <<>> /\ IsAck(log[r][1]))

HasFailed(r) == pc[r] \in {"returned_err", "panicked"}

\* Request r is suspended in driver.lock()
Waiting(r) == \E k \in 1..Len(waiters) : waiters[k] = r

\* This step is a failure of request r: its handler ends on an error or a
\* panic, or the task sending its error message panics
FailsIn(r) ==
  \/ ~HasFailed(r) /\ pc'[r] \in {"returned_err", "panicked"}
  \/ report[r].status # "panicked" /\ report'[r].status = "panicked"

\* This step leaves request q as it is, but for the guard that the holder r
\* hands to q when q is the oldest waiter, as every end of an extraction does
UntouchedBy(r, q) ==
  /\ msg'[q] = msg[q] /\ log'[q] = log[q] /\ report'[q] = report[q]
  /\ paragraphs'[q] = paragraphs[q] /\ blog_text'[q] = blog_text[q]
  /\ edited_blog_text'[q] = edited_blog_text[q] /\ i'[q] = i[q]
  /\ \/ pc'[q] = pc[q]
     \/ /\ r \in driver /\ waiters # <<>> /\ q = Head(waiters)
        /\ pc[q] = "lock_wait" /\ pc'[q] = "goto" /\ driver' = {q}

\* A step in which a request fails, at any stage, changes nothing of any
\* other request (its stage, its calls and messages, its outcome) beyond
\* handing the driver to the oldest waiter; a failed request neither holds the
\* driver nor waits for it, and a waiting request waits for a request that is
\* still extracting
IsolatedHandlers ==
  /\ \A r \in Reqs : FailsIn(r) => \A q \in Reqs \ {r} : UntouchedBy(r, q)
  /\ \A r \in Reqs :
       (pc'[r] \in {"returned_err", "panicked"}) =>
         (r \notin driver' /\ \A k \in 1..Len(waiters') : waiters'[k] # r)
  /\ \A q \in Reqs :
       pc'[q] = "lock_wait" =>
         \E r \in Reqs \ {q} :
           driver' = {r} /\ pc'[r] \in {"goto", "find_article", "find_all", "read"}

\* The failures of the handlers leave each other alone, the driver free and
\* its queue served
HandlersAreIsolated == [][IsolatedHandlers]_vars

\* C11: a failure of a request, at any stage, changes nothing of any other
\* request, never leaves the driver held, and leaves the listener running, so
\* that the requests in flight and the later ones can still run to their end
C11_FailureIsolation ==
  [][/\ IsolatedHandlers
     /\ \A r \in Reqs :
          (pc'[r] \in {"returned_err", "panicked"}) => repl' = "running"]_vars

\* This step hands the handler of r a message without text
ReceivesNoText(r) == pc[r] = "idle" /\ pc'[r] # "idle" /\ msg'[r] = {}

\* C12: for a message without text the handler returns Ok with no
\* acknowledgement, no lock of the driver, no extraction, rewrite or synthesis
\* call and no outbound message, and the step changes neither the driver, the
\* page and the queue nor any other request
C12_NoTextIgnored ==
  [][/\ \A r \in Reqs :
          ReceivesNoText(r) =>
            /\ pc'[r] = "returned_ok"
            /\ UNCHANGED <<repl, driver, waiters, page, paragraphs, blog_text,
                           edited_blog_text, i, report, log>>
            /\ \A q \in Reqs \ {r} : pc'[q] = pc[q] /\ msg'[q] = msg[q]
     /\ \A r \in Reqs :
          (pc'[r] # "idle" /\ msg'[r] = {}) =>
            /\ pc'[r] = "returned_ok"
            /\ log'[r] = <<>>
            /\ report'[r] = NoReport
            /\ r \notin driver'
            /\ \A k \in 1..Len(waiters') : waiters'[k] # r]_vars

\* C12 witness: a message without text was ignored while another request
\* holds the driver and reads a paragraph
C12_Witness ==
  \E r, q \in Reqs :
    /\ msg[r] = {} /\ pc[r] = "returned_ok" /\ log[r] = <<>>
    /\ msg[q] # {} /\ pc[q] = "read" /\ driver = {q}

\* C13: for every max_chunk_size the chunks of the empty text are the empty
\* sequence, for the size the handler passes as well
C13_EmptyInput ==
  /\ (cpc = "done" /\ text = "") => chunks = <<>>
  /\ text = "" => (rest = <<>> /\ current_chunk = "")
  /\ chunk_text_by_lines("", HandlerChunkSize) = <<>>

\* C13 witness: the call on the empty text returned, for the largest size
C13_Witness ==
  cpc = "done" /\ text = "" /\ max_chunk_size = MaxSize /\ chunks = <<>>

\* The call in progress has the arguments of the remembered call
SameInput == previous.called /\ previous.s = text /\ previous.max = max_chunk_size

C15_HeldOnlyInExtraction ==
  \A r \in Reqs :
    /\ r \in driver <=> InExtraction(r)
    /\ r \in driver =>
         /\ log[r] = <<Call("send_message", AckText, TRUE)>>
         /\ report[r] = NoReport
    /\ (pc[r] \in {"idle", "ack", "lock", "lock_wait", "edit", "speech",
                   "send_audio", "returned_ok", "returned_err", "panicked"}
        \/ report[r].status # "none") => r \notin driver

\* C15 witness: the extraction of one request failed and its error message is
\* not sent yet, while the request that waited already holds the driver
C15_Witness ==
  \E r, q \in Reqs :
    /\ Failed(r, "get_blog_text") # {}
    /\ report[r].status = "spawned"
    /\ driver = {q}
    /\ pc[q] = "goto"

\* What get_blog_text builds from n paragraphs of the page of r's own URL
RECURSIVE OwnText(_, _)
OwnText(r, n) ==
  IF n = 0 THEN "" ELSE OwnText(r, n - 1) \o "<p>" \o Url(r) \o "\n"

\* C16: from its driver.goto(url) to its last p.text() a request finds the
\* browser on the page of its own URL, no other request having navigated in
\* between, and the text it extracts is made of paragraphs of that page only
C16_OwnPage ==
  \A r \in Reqs :
    /\ pc[r] \in {"find_article", "find_all", "read"} =>
         (page = Url(r) /\ driver = {r})
    /\ \E n \in 0..MaxParagraphs : blog_text[r] = OwnText(r, n)
    /\ pc[r] = "read" =>
         \E n \in 0..(MaxParagraphs - paragraphs[r]) : blog_text[r] = OwnText(r, n)

\* C16 witness: one request extracted a paragraph of its page and is about to
\* call edit_text while another, on its own page, reads a paragraph
C16_Witness ==
  \E r, q \in Reqs :
    /\ r # q
    /\ pc[r] = "edit" /\ blog_text[r] = OwnText(r, 1)
    /\ pc[q] = "read" /\ page = Url(q) /\ page # Url(r)

\* Calls k and j of r are calls of the synthesizer, or of the audio
\* delivery, for the same chunk index
SameChunkCall(r, k, j) ==
  /\ log[r][k].op \in {"text_to_speech", "send_audio"}
  /\ log[r][k].op = log[r][j].op
  /\ log[r][k].arg = log[r][j].arg

\* C17: a request calls get_blog_text at most once, edit_text at most once,
\* text_to_speech and send_audio at most once for each chunk index, and after
\* a failed call it makes no call again: only the one error message of
\* handle_error may follow the failed call
C17_NoRetry ==
  \A r \in Reqs :
    /\ Cardinality(Calls(r, "get_blog_text")) <= 1
    /\ Cardinality(Calls(r, "edit_text")) <= 1
    /\ \A k, j \in 1..Len(log[r]) : SameChunkCall(r, k, j) => k = j
    /\ \A k \in 1..Len(log[r]) :
         ~log[r][k].ok =>
           /\ Len(log[r]) <= k + 1
           /\ Len(log[r]) = k + 1 =>
                (IsErrorMessage(log[r][k + 1]) /\ ~IsErrorMessage(log[r][k]))
           /\ HasFailed(r)

\* C17 witness: send_audio failed for the second chunk and was the last call
\* of its request, after two text_to_speech calls and one delivered audio
C17_Witness ==
  \E r \in Reqs :
    /\ pc[r] = "returned_err"
    /\ Len(log[r]) = 7
    /\ log[r][7] = Call("send_audio", "part_1.mp3", FALSE)
    /\ Cardinality(Calls(r, "text_to_speech")) = 2
    /\ report[r] = NoReport

\* The handler of r returned Ok after its last chunk
Done(r) == pc[r] = "returned_ok"

\* The handler of r failed and the error message of handle_error was sent
FailedAndReported(r) == HasFailed(r) /\ report[r].status = "sent"

\* C18: under fair scheduling every request with text ends, Done or failed
\* with its error reported, and every request that waits for the driver gets it
C18_Progress ==
  \A r \in Reqs :
    /\ (pc[r] = "ack") ~> (Done(r) \/ FailedAndReported(r))
    /\ (pc[r] = "lock_wait") ~> (r \in driver)

\* Under fair scheduling, and as long as the repl future runs, every request
\* with text ends, its error task too, and every request that waits for the
\* driver gets it
C18_Terminates ==
  \A r \in Reqs :
    /\ (pc[r] = "ack") ~> ((Ended(r) /\ Settled(r)) \/ repl = "panicked")
    /\ (pc[r] = "lock_wait") ~> (r \in driver \/ repl = "panicked")

\* C19: for max_chunk_size >= 1 no chunk of the returned sequence is the
\* empty string
C19_NoEmptyChunk ==
  (cpc = "done" /\ max_chunk_size >= 1) =>
    \A k \in 1..Len(chunks) : chunks[k] # ""

====
